---------------------------- MODULE Spec2Model ----------------------------
(***************************************************************************)
(* Composable Boolean filters: the predicate backend (src/filters.py) and  *)
(* the LDAP query backend (src/ad_filters.py).                             *)
(*                                                                         *)
(* A client session is modelled as a heap of constructed filter objects.   *)
(* heap[i] is the i-th object constructed; a composite refers to its       *)
(* component filters by their heap index (object references).  Python      *)
(* values are tagged records, Python str values are sequences of one-      *)
(* character strings, and the outcome of a call is either a returned value *)
(* or a raised exception, together with the trace of the filter objects    *)
(* whose test() was entered, in call order.                                *)
(***************************************************************************)
EXTENDS Integers, Sequences, FiniteSets, TLC

VARIABLES
    module,   \* which module the client imported: "filters" or "ad_filters"
    heap,     \* the filter objects constructed so far, in construction order
    last      \* the last operation the client performed, with its outcome

vars == <<module, heap, last>>

---------------------------------------------------------------------------
(* Bounds of the model *)

\* most filters passed as *moreFilters / *filters to And or Or
MaxArgs == 1
\* most candidates in the list handed to Filter.filter
MaxCands == 2

---------------------------------------------------------------------------
(* Python str *)

\* a str literal as a sequence of one-character strings
Str(s) == [i \in 1 .. Len(s) |-> SubSeq(s, i, i)]

\* the printable ASCII characters: code points 32 .. 95 and 97 .. 126 in
\* order (the grave accent, 96, is left out of the alphabet)
ASCII ==
    Str(" !\"#$%&'()*+,-./0123456789:;<=>?@ABCDEFGHIJKLMNOPQRSTUVWXYZ[\\]^_")
    \o Str("abcdefghijklmnopqrstuvwxyz{|}~")

\* position of a code point in ASCII, and back
AsciiIndex(n) == IF n < 96 THEN n - 31 ELSE n - 32
AsciiCode(i) == IF i <= 64 THEN i + 31 ELSE i + 32

OrdTable == [c \in {ASCII[i] : i \in 1 .. Len(ASCII)} |->
                AsciiCode(CHOOSE i \in 1 .. Len(ASCII) : ASCII[i] = c)]

\* ord(c) and chr(n)
Ord(c) == OrdTable[c]
Chr(n) == ASCII[AsciiIndex(n)]

\* str.lower(): A-Z (65 .. 90) move to a-z, every other character stays
lower(s) ==
    [i \in 1 .. Len(s) |->
        IF Ord(s[i]) \in 65 .. 90 THEN Chr(Ord(s[i]) + 32) ELSE s[i]]

\* str ordering: lexicographic by code point
StrLess(s, t) ==
    \E k \in 1 .. Len(t) :
        /\ k <= Len(s) + 1
        /\ \A j \in 1 .. k - 1 : s[j] = t[j]
        /\ \/ k = Len(s) + 1
           \/ k <= Len(s) /\ Ord(s[k]) < Ord(t[k])

\* p in s, for two str
IsSubstring(p, s) ==
    \E i \in 0 .. Len(s) - Len(p) : SubSeq(s, i + 1, i + Len(p)) = p

---------------------------------------------------------------------------
(* Python values: t is the type name; s the characters of a str (or the   *)
(* name of a function); l the elements of a list of str; n the number of  *)
(* an int or bool.                                                        *)

StrV(s)  == [t |-> "str",      s |-> s,    l |-> <<>>, n |-> 0]
ListV(l) == [t |-> "list",     s |-> <<>>, l |-> l,    n |-> 0]
IntV(n)  == [t |-> "int",      s |-> <<>>, l |-> <<>>, n |-> n]
BoolV(b) == [t |-> "bool",     s |-> <<>>, l |-> <<>>, n |-> IF b THEN 1 ELSE 0]
None     == [t |-> "NoneType", s |-> <<>>, l |-> <<>>, n |-> 0]
\* the match object re.search returns on success
Match    == [t |-> "match",    s |-> <<>>, l |-> <<>>, n |-> 0]
\* a callable, known by its name
FuncV(f) == [t |-> "function", s |-> Str(f), l |-> <<>>, n |-> 0]
\* an attribute the object does not have
Absent   == [t |-> "absent",   s |-> <<>>, l |-> <<>>, n |-> 0]

True  == BoolV(TRUE)
False == BoolV(FALSE)

\* the truth value Python gives a value in `if x' and `not x'
Truthy(v) ==
    CASE v.t = "NoneType"           -> FALSE
      [] v.t \in {"int", "bool"}    -> v.n # 0
      [] v.t = "str"                -> Len(v.s) > 0
      [] v.t = "list"               -> Len(v.l) > 0
      [] OTHER                      -> TRUE

---------------------------------------------------------------------------
(* Outcomes of calls *)

Return(v, tr) == [exc |-> "", val |-> v, trace |-> tr]
Raise(e, tr)  == [exc |-> e,  val |-> None, trace |-> tr]

Raised(o) == o.exc # ""
\* the call returned a value that counts as true
Passes(o) == ~Raised(o) /\ Truthy(o.val)

---------------------------------------------------------------------------
(* The standard operators of the comparator table, on Python 2 values *)

IsNumber(v) == v.t \in {"int", "bool"}

\* operator.eq
PyEq(a, b) ==
    CASE IsNumber(a) /\ IsNumber(b)       -> a.n = b.n
      [] a.t = "str" /\ b.t = "str"       -> a.s = b.s
      [] a.t = "list" /\ b.t = "list"     -> a.l = b.l
      [] OTHER                            -> a.t = b.t /\ a = b

\* Python 2 orders values of different types: None first, numbers next,
\* the others by type name
TypeRank(v) ==
    CASE v.t = "NoneType" -> 0
      [] IsNumber(v)      -> 1
      [] v.t = "list"     -> 2
      [] v.t = "str"      -> 3

ListLess(l, m) ==
    \E k \in 1 .. Len(m) :
        /\ k <= Len(l) + 1
        /\ \A j \in 1 .. k - 1 : l[j] = m[j]
        /\ \/ k = Len(l) + 1
           \/ k <= Len(l) /\ StrLess(l[k], m[k])

\* operator.lt
PyLt(a, b) ==
    CASE IsNumber(a) /\ IsNumber(b)       -> a.n < b.n
      [] a.t = "str" /\ b.t = "str"       -> StrLess(a.s, b.s)
      [] a.t = "list" /\ b.t = "list"     -> ListLess(a.l, b.l)
      [] OTHER                            -> TypeRank(a) < TypeRank(b)

\* operator.contains(a, b): b in a
contains(a, b) ==
    CASE a.t = "str" ->
            IF b.t = "str" THEN Return(BoolV(IsSubstring(b.s, a.s)), <<>>)
                           ELSE Raise("TypeError", <<>>)
      [] a.t = "list" ->
            Return(BoolV(\E k \in 1 .. Len(a.l) : PyEq(StrV(a.l[k]), b)), <<>>)
      [] OTHER -> Raise("TypeError", <<>>)

\* the operator names of the table in Check.getComparator
ComparatorNames == {"in", "has", "is", "ge", "gt", "le", "lt", "ne"}

\* Check.getComparator: dict.get(name), the table's function (known here by
\* its key) or the None object for a name outside the table
getComparator(name) == IF name \in ComparatorNames THEN name ELSE "None"

\* calling the object getComparator returned on (a, b)
CallComparator(f, a, b) ==
    CASE f = "in"  -> contains(b, a)
      [] f = "has" -> contains(a, b)
      [] f = "is"  -> Return(BoolV(PyEq(a, b)), <<>>)
      [] f = "ne"  -> Return(BoolV(~PyEq(a, b)), <<>>)
      [] f = "lt"  -> Return(BoolV(PyLt(a, b)), <<>>)
      [] f = "gt"  -> Return(BoolV(PyLt(b, a)), <<>>)
      [] f = "le"  -> Return(BoolV(~PyLt(b, a)), <<>>)
      [] f = "ge"  -> Return(BoolV(~PyLt(a, b)), <<>>)
      [] OTHER     -> Raise("TypeError", <<>>)   \* 'NoneType' is not callable

\* v.lower(): only a str has the method
CallLower(v) ==
    IF v.t = "str" THEN Return(StrV(lower(v.s)), <<>>)
                   ELSE Raise("AttributeError", <<>>)

---------------------------------------------------------------------------
(* Candidates *)

Properties == {"name", "office", "groups", "fave"}

\* Candidate.__init__(name, office, groups=[], data={}): data is a set of
\* <<key, value>> pairs turned into attributes
Candidate(name, office, groups, data) ==
    [p \in Properties |->
        CASE p = "name"   -> StrV(Str(name))
          [] p = "office" -> StrV(Str(office))
          [] p = "groups" -> ListV(groups)
          [] OTHER        ->
                IF \E d \in data : d[1] = p
                THEN (CHOOSE d \in data : d[1] = p)[2]
                ELSE Absent]

\* getattr(candidate, property)
getattr(candidate, property) ==
    IF property \in DOMAIN candidate /\ candidate[property].t # "absent"
    THEN Return(candidate[property], <<>>)
    ELSE Raise("AttributeError", <<>>)

\* the candidates of tests(), and one constructed with the default
\* groups=[] and data={} (no fave attribute)
people ==
    << Candidate("Alice Agnew",  "SYD", <<Str("producers"), Str("staff")>>,     {<<"fave", StrV(Str("Red"))>>}),
       Candidate("Bob Brite",    "LA",  <<Str("leads"),     Str("staff")>>,     {<<"fave", StrV(Str("Red"))>>}),
       Candidate("Chuck Close",  "SYD", <<Str("producers"), Str("freelance")>>, {<<"fave", StrV(Str("Red"))>>}),
       Candidate("Doug Dirtbag", "NY",  <<Str("producers"), Str("staff")>>,     {<<"fave", StrV(Str("Green"))>>}),
       Candidate("Edgar Equine", "NY",  <<Str("producers"), Str("freelance")>>, {<<"fave", StrV(Str("Blue"))>>}),
       Candidate("Fern Fack",    "LA",  <<Str("2d"),        Str("staff")>>,     {<<"fave", StrV(Str("Blue"))>>}),
       Candidate("Gil Gray",     "LA",  <<>>,                                   {}) >>

---------------------------------------------------------------------------
(* Filter objects of filters.py.  A field the constructor does not set is *)
(* Unset; a reference that is not set is 0.                               *)

Unset == Absent

FilterObject(kind, testValue, property, pattern, comparator, value, filters, subject) ==
    [kind |-> kind, testValue |-> testValue, property |-> property,
     pattern |-> pattern, comparator |-> comparator, value |-> value,
     filters |-> filters, subject |-> subject]

\* Filter.__init__(testValue), inherited by EchoMatch, Lambda and InOffice
Filter___init__(kind, testValue) ==
    FilterObject(kind, testValue, "", Unset, "", Unset, <<>>, 0)

\* PropertyRegex.__init__(property, pattern)
PropertyRegex___init__(property, pattern) ==
    FilterObject("PropertyRegex", Unset, property, pattern, "", Unset, <<>>, 0)

\* Check.__init__(property, comparator, value)
Check___init__(property, comparator, value) ==
    FilterObject("Check", Unset, property, Unset, getComparator(comparator),
                 value, <<>>, 0)

\* FilterComposite.__init__(*filters), inherited by And and Or
FilterComposite___init__(kind, filters) ==
    FilterObject(kind, Unset, "", Unset, "", Unset, filters, 0)

\* Not.__init__(subject)
Not___init__(subject) ==
    FilterObject("Not", Unset, "", Unset, "", Unset, <<>>, subject)

---------------------------------------------------------------------------
(* test() of filters.py.  h is the heap, i the object whose test is       *)
(* called, c the candidate.  The trace of an outcome lists the objects    *)
(* whose test() was entered, in call order.                               *)

RECURSIVE test(_, _, _)
RECURSIVE And_loop(_, _, _, _, _)
RECURSIVE Or_loop(_, _, _, _, _)
RECURSIVE AndNoShortCircuit_loop(_, _, _, _, _, _)
RECURSIVE OrNoShortCircuit_loop(_, _, _, _, _, _)

\* EchoMatch.test
EchoMatch_test(h, i, c) == Return(h[i].testValue, <<i>>)

\* the callables handed to Lambda, by name
CallFunction(f, c) ==
    CASE f = FuncV("always") -> Return(True, <<>>)                \* lambda c: True
      [] f = FuncV("never")  -> Return(False, <<>>)               \* lambda c: False
      [] f = FuncV("fave")   -> getattr(c, "fave")                \* lambda c: c.fave
      [] f = FuncV("groups") -> getattr(c, "groups")              \* lambda c: c.groups
      [] OTHER               -> Raise("TypeError", <<>>)          \* not callable

\* Lambda.test
Lambda_test(h, i, c) ==
    LET r == CallFunction(h[i].testValue, c)
    IN  [r EXCEPT !.trace = <<i>>]

\* re.compile(pattern).search(att), for a pattern of literal characters
re_search(pattern, att) ==
    IF att.t # "str" THEN Raise("TypeError", <<>>)
    ELSE IF IsSubstring(pattern.s, att.s) THEN Return(Match, <<>>)
    ELSE Return(None, <<>>)

\* PropertyRegex.test
PropertyRegex_test(h, i, c) ==
    LET self == h[i]
        att  == getattr(c, self.property)
    IN  IF self.pattern.t # "str" THEN Raise("TypeError", <<i>>)   \* re.compile
        ELSE IF Raised(att) THEN Raise(att.exc, <<i>>)
        ELSE IF Truthy(att.val)
             THEN [re_search(self.pattern, att.val) EXCEPT !.trace = <<i>>]
             ELSE Return(False, <<i>>)

\* the second try block of Check.test
Check_test_raw(self, att) == CallComparator(self.comparator, att, self.value)

\* the first try block of Check.test
Check_test_lowered(self, att) ==
    LET a == CallLower(att)
        b == CallLower(self.value)
    IN  IF Raised(a) THEN a
        ELSE IF Raised(b) THEN b
        ELSE CallComparator(self.comparator, a.val, b.val)

\* Check.test in the variant that compares the raw values only
Check_testCaseSensitive(h, i, c) ==
    LET self == h[i]
        att  == getattr(c, self.property)
    IN  IF Raised(att) THEN Raise(att.exc, <<i>>)
        ELSE LET second == Check_test_raw(self, att.val)
             IN  IF ~Raised(second) THEN Return(second.val, <<i>>)
                 ELSE Return(False, <<i>>)

\* Check.test in the variant that looks the property up inside the try
\* blocks
Check_testLookupGuarded(h, i, c) ==
    LET self == h[i]
        att  == getattr(c, self.property)
    IN  IF Raised(att) THEN Return(False, <<i>>)
        ELSE LET first  == Check_test_lowered(self, att.val)
                 second == Check_test_raw(self, att.val)
             IN  IF ~Raised(first) THEN Return(first.val, <<i>>)
                 ELSE IF ~Raised(second) THEN Return(second.val, <<i>>)
                 ELSE Return(False, <<i>>)

\* Check.test
Check_test(h, i, c) ==
    LET self == h[i]
        att  == getattr(c, self.property)
    IN  IF Raised(att) THEN Raise(att.exc, <<i>>)
        ELSE LET first  == Check_test_lowered(self, att.val)
                 second == Check_test_raw(self, att.val)
             IN  IF ~Raised(first) THEN Return(first.val, <<i>>)
                 ELSE IF ~Raised(second) THEN Return(second.val, <<i>>)
                 ELSE Return(False, <<i>>)

\* InOffice.test
InOffice_test(h, i, c) ==
    LET office == getattr(c, "office")
    IN  IF Raised(office) THEN Raise(office.exc, <<i>>)
        ELSE Return(BoolV(PyEq(office.val, h[i].testValue)), <<i>>)

\* the for loop of And.test from the k-th component on; tr is the trace so far
And_loop(h, i, c, k, tr) ==
    IF k > Len(h[i].filters) THEN Return(True, tr)
    ELSE LET r == test(h, h[i].filters[k], c)
         IN  IF Raised(r) THEN Raise(r.exc, tr \o r.trace)
             ELSE IF ~Truthy(r.val) THEN Return(False, tr \o r.trace)
             ELSE And_loop(h, i, c, k + 1, tr \o r.trace)

\* And.test in the variant that tests every component before it answers
AndNoShortCircuit_loop(h, i, c, k, tr, acc) ==
    IF k > Len(h[i].filters) THEN Return(BoolV(acc), tr)
    ELSE LET r == test(h, h[i].filters[k], c)
         IN  IF Raised(r) THEN Raise(r.exc, tr \o r.trace)
             ELSE AndNoShortCircuit_loop(h, i, c, k + 1, tr \o r.trace,
                                         acc /\ Truthy(r.val))

AndNoShortCircuit_test(h, i, c) == AndNoShortCircuit_loop(h, i, c, 1, <<i>>, TRUE)

And_test(h, i, c) == And_loop(h, i, c, 1, <<i>>)

\* the for loop of Or.test from the k-th component on
Or_loop(h, i, c, k, tr) ==
    IF k > Len(h[i].filters) THEN Return(False, tr)
    ELSE LET r == test(h, h[i].filters[k], c)
         IN  IF Raised(r) THEN Raise(r.exc, tr \o r.trace)
             ELSE IF Truthy(r.val) THEN Return(True, tr \o r.trace)
             ELSE Or_loop(h, i, c, k + 1, tr \o r.trace)

\* Or.test in the variant that tests every component before it answers
OrNoShortCircuit_loop(h, i, c, k, tr, acc) ==
    IF k > Len(h[i].filters) THEN Return(BoolV(acc), tr)
    ELSE LET r == test(h, h[i].filters[k], c)
         IN  IF Raised(r) THEN Raise(r.exc, tr \o r.trace)
             ELSE OrNoShortCircuit_loop(h, i, c, k + 1, tr \o r.trace,
                                        acc \/ Truthy(r.val))

OrNoShortCircuit_test(h, i, c) == OrNoShortCircuit_loop(h, i, c, 1, <<i>>, FALSE)

Or_test(h, i, c) == Or_loop(h, i, c, 1, <<i>>)

\* Not.test
Not_test(h, i, c) ==
    LET r == test(h, h[i].subject, c)
    IN  IF Raised(r) THEN Raise(r.exc, <<i>> \o r.trace)
        ELSE Return(BoolV(~Truthy(r.val)), <<i>> \o r.trace)

\* the method test of the class of h[i]; Filter.test and
\* FilterComposite.test are the abstract ones
test(h, i, c) ==
    CASE h[i].kind = "EchoMatch"     -> EchoMatch_test(h, i, c)
      [] h[i].kind = "PropertyRegex" -> PropertyRegex_test(h, i, c)
      [] h[i].kind = "Lambda"        -> Lambda_test(h, i, c)
      [] h[i].kind = "Check"         -> Check_test(h, i, c)
      [] h[i].kind = "InOffice"      -> InOffice_test(h, i, c)
      [] h[i].kind = "And"           -> And_test(h, i, c)
      [] h[i].kind = "Or"            -> Or_test(h, i, c)
      [] h[i].kind = "Not"           -> Not_test(h, i, c)
      [] OTHER                       -> Raise("NotImplementedError", <<i>>)

RECURSIVE filter_loop(_, _, _, _, _)
\* the builtin filter(self.test, candidates) from the k-th candidate on;
\* candidates are known by their position in people
filter_loop(h, i, candidates, k, kept) ==
    IF k > Len(candidates) THEN [exc |-> "", list |-> kept]
    ELSE LET r == test(h, i, people[candidates[k]])
         IN  IF Raised(r) THEN [exc |-> r.exc, list |-> <<>>]
             ELSE filter_loop(h, i, candidates, k + 1,
                              IF Truthy(r.val) THEN Append(kept, candidates[k])
                                               ELSE kept)

\* Filter.filter in the variant that keeps a candidate once
Filter_filterDistinct(h, i, candidates) ==
    LET r == filter_loop(h, i, candidates, 1, <<>>)
        first == SelectSeq([k \in 1 .. Len(r.list) |-> <<k, r.list[k]>>],
                           LAMBDA e : \A j \in 1 .. e[1] - 1 : r.list[j] # e[2])
    IN  [r EXCEPT !.list = [k \in 1 .. Len(first) |-> first[k][2]]]

\* Filter.filter
Filter_filter(h, i, candidates) == filter_loop(h, i, candidates, 1, <<>>)

---------------------------------------------------------------------------
(* The class constructors and the fluent methods of filters.py.  Each     *)
(* takes the heap and gives the heap after the call and the reference it  *)
(* returns.                                                               *)

Allocate(h, object) == [heap |-> Append(h, object), ref |-> Len(h) + 1]

\* And(*filters), Or(*filters), Not(subject)
filters_And(h, filters) == Allocate(h, FilterComposite___init__("And", filters))
filters_Or(h, filters)  == Allocate(h, FilterComposite___init__("Or", filters))
filters_Not(h, subject) == Allocate(h, Not___init__(subject))

\* Filter.Or in the variant that puts the receiver last
Filter_OrReceiverLast(h, self, moreFilters) == filters_Or(h, moreFilters \o <<self>>)

\* Filter.Or(self, *moreFilters)
Filter_Or(h, self, moreFilters) == filters_Or(h, <<self>> \o moreFilters)

\* Filter.And in the variant that adds moreFilters to a receiver that is
\* already an And, and returns the receiver
Filter_AndInPlace(h, self, moreFilters) ==
    IF h[self].kind = "And"
    THEN [heap |-> [h EXCEPT ![self].filters = @ \o moreFilters], ref |-> self]
    ELSE filters_And(h, <<self>> \o moreFilters)

\* Filter.And(self, *moreFilters)
Filter_And(h, self, moreFilters) == filters_And(h, <<self>> \o moreFilters)

\* Filter.Not(self)
Filter_Not(h, self) == filters_Not(h, self)

---------------------------------------------------------------------------
(* ad_filters.py: LDAP query objects *)

\* constants.py is not among the sources: the matching rule OIDs of
\* Active Directory and the ACCOUNTDISABLE bit of userAccountControl
C__AND == StrV(Str("1.2.840.113556.1.4.803"))
C__CHAIN == StrV(Str("1.2.840.113556.1.4.1941"))
C_ACCOUNTDISABLE == IntV(2)

RECURSIVE Digits(_)
\* the decimal digits of n >= 0
Digits(n) ==
    IF n < 10 THEN <<Chr(48 + n)>>
    ELSE Digits(n \div 10) \o <<Chr(48 + (n % 10))>>

\* str(v) for a str or a non-negative int
str(v) == IF v.t = "str" THEN v.s ELSE Digits(v.n)

RECURSIVE Format(_, _)
\* format % values, for a format whose only conversions are %s
Format(format, values) ==
    IF format = <<>> THEN <<>>
    ELSE IF Len(format) >= 2 /\ format[1] = "%" /\ format[2] = "s"
         THEN str(Head(values)) \o Format(SubSeq(format, 3, Len(format)), Tail(values))
         ELSE <<format[1]>> \o Format(Tail(format), values)

ADObject(kind, name, value, op, parent, filters) ==
    [kind |-> kind, name |-> name, value |-> value, op |-> op,
     parent |-> parent, filters |-> filters]

\* IsDisabled() and IsActive(): no constructor of their own
ad_IsDisabled___init__ == ADObject("IsDisabled", Unset, Unset, Unset, Unset, <<>>)
ad_IsActive___init__   == ADObject("IsActive", Unset, Unset, Unset, Unset, <<>>)

\* Check.__init__(name, value, op='=')
ad_Check___init__(name, value, op) ==
    ADObject("Check", name, value, op, Unset, <<>>)

\* DescendantOf.__init__(parent), ChildOf.__init__(parent)
ad_DescendantOf___init__(parent) ==
    ADObject("DescendantOf", Unset, Unset, Unset, parent, <<>>)
ad_ChildOf___init__(parent) ==
    ADObject("ChildOf", Unset, Unset, Unset, parent, <<>>)

\* Composite.__init__(*filters), inherited by And and Or
ad_Composite___init__(kind, filters) ==
    ADObject(kind, Unset, Unset, Unset, Unset, filters)

\* Not.__init__(filter)
ad_Not___init__(filter) ==
    ADObject("Not", Unset, Unset, Unset, Unset, <<filter>>)

RECURSIVE emit(_, _)
RECURSIVE join_emit(_, _, _)

\* IsDisabled.emit
ad_IsDisabled_emit(h, i) ==
    Format(Str("(userAccountControl:%s:=%s)"), <<C__AND, C_ACCOUNTDISABLE>>)

\* IsActive.emit: Not(IsDisabled()).emit() on two objects of its own
ad_IsActive_emit(h, i) ==
    LET disabled == Allocate(h, ad_IsDisabled___init__)
        negated  == Allocate(disabled.heap, ad_Not___init__(disabled.ref))
    IN  emit(negated.heap, negated.ref)

\* Check.emit
ad_Check_emit(h, i) ==
    Format(Str("(%s%s%s)"), <<h[i].name, h[i].op, h[i].value>>)

\* DescendantOf.emit
ad_DescendantOf_emit(h, i) ==
    Format(Str("(memberOf:%s:=CN=%s,cn=Users,dc=psyop,dc=tv)"),
           <<C__CHAIN, h[i].parent>>)

\* ChildOf.emit in the variant that names another container
ad_ChildOf_emitOtherContext(h, i) ==
    Format(Str("(memberOf=CN=%s,OU=Users,DC=psyop,DC=tv)"), <<h[i].parent>>)

\* ChildOf.emit
ad_ChildOf_emit(h, i) ==
    Format(Str("(memberOf=CN=%s,CN=Users,DC=psyop,DC=tv)"), <<h[i].parent>>)

\* ''.join([f.emit() for f in filters]) from the k-th filter on
join_emit(h, filters, k) ==
    IF k > Len(filters) THEN <<>>
    ELSE emit(h, filters[k]) \o join_emit(h, filters, k + 1)

\* Composite.concat in the variant that emits each component once
ad_Composite_concatDistinct(h, i, op) ==
    LET fs    == h[i].filters
        first == SelectSeq([k \in 1 .. Len(fs) |-> <<k, fs[k]>>],
                           LAMBDA e : \A j \in 1 .. e[1] - 1 : fs[j] # e[2])
    IN  Format(Str("(%s%s)"),
               <<StrV(op), StrV(join_emit(h, [k \in 1 .. Len(first) |-> first[k][2]], 1))>>)

\* Composite.concat
ad_Composite_concat(h, i, op) ==
    LET filter_train == join_emit(h, h[i].filters, 1)
    IN  Format(Str("(%s%s)"), <<StrV(op), StrV(filter_train)>>)

\* And.emit, Or.emit, Not.emit
ad_And_emit(h, i) == ad_Composite_concat(h, i, Str("&"))
ad_Or_emit(h, i)  == ad_Composite_concat(h, i, Str("|"))
ad_Not_emit(h, i) == ad_Composite_concat(h, i, Str("!"))

\* the method emit of the class of h[i]
emit(h, i) ==
    CASE h[i].kind = "IsDisabled"   -> ad_IsDisabled_emit(h, i)
      [] h[i].kind = "IsActive"     -> ad_IsActive_emit(h, i)
      [] h[i].kind = "Check"        -> ad_Check_emit(h, i)
      [] h[i].kind = "DescendantOf" -> ad_DescendantOf_emit(h, i)
      [] h[i].kind = "ChildOf"      -> ad_ChildOf_emit(h, i)
      [] h[i].kind = "And"          -> ad_And_emit(h, i)
      [] h[i].kind = "Or"           -> ad_Or_emit(h, i)
      [] h[i].kind = "Not"          -> ad_Not_emit(h, i)

\* And(*filters), Or(*filters), Not(filter)
ad_And(h, filters) == Allocate(h, ad_Composite___init__("And", filters))
ad_Or(h, filters)  == Allocate(h, ad_Composite___init__("Or", filters))
ad_Not(h, filter)  == Allocate(h, ad_Not___init__(filter))

\* Filter.Or(self, *filters), Filter.And(self, *filters), Filter.Not(self)
ad_Filter_Or(h, self, filters)  == ad_Or(h, <<self>> \o filters)
ad_Filter_And(h, self, filters) == ad_And(h, <<self>> \o filters)
ad_Filter_Not(h, self)          == ad_Not(h, self)

---------------------------------------------------------------------------
(* Operations of a client session *)

NoOutcome == Return(None, <<>>)

\* the record of an operation: op is what was done; node the object it
\* returned or was called on; cls and form the class and the form ("ctor",
\* "fluent") of a composition, self its receiver and args its arguments;
\* cand and cands the candidate and the candidate list (positions in
\* people); out, list and text the outcome of test, filter and emit
NoOp ==
    [op |-> "none", node |-> 0, cls |-> "", form |-> "", self |-> 0,
     args |-> <<>>, cand |-> 0, cands |-> <<>>, out |-> NoOutcome,
     exc |-> "", list |-> <<>>, text |-> <<>>]

\* a leaf constructor call: the object is allocated
Construct(object) ==
    /\ heap' = Append(heap, object)
    /\ last' = [NoOp EXCEPT !.op = "new", !.node = Len(heap) + 1]
    /\ UNCHANGED module

\* cls(*filters) for cls And or Or, cls(filters[1]) for Not
ComposeCtor(cls, filters) ==
    LET r == IF module = "filters"
             THEN CASE cls = "And" -> filters_And(heap, filters)
                    [] cls = "Or"  -> filters_Or(heap, filters)
                    [] cls = "Not" -> filters_Not(heap, filters[1])
             ELSE CASE cls = "And" -> ad_And(heap, filters)
                    [] cls = "Or"  -> ad_Or(heap, filters)
                    [] cls = "Not" -> ad_Not(heap, filters[1])
    IN  /\ cls = "Not" => Len(filters) = 1
        /\ \A k \in 1 .. Len(filters) : filters[k] \in 1 .. Len(heap)
        /\ heap' = r.heap
        /\ last' = [NoOp EXCEPT !.op = "compose", !.node = r.ref, !.cls = cls,
                                !.form = "ctor", !.args = filters]
        /\ UNCHANGED module

\* self.cls(*more) for cls And or Or, self.Not() for Not
ComposeFluent(cls, self, more) ==
    LET r == IF module = "filters"
             THEN CASE cls = "And" -> Filter_And(heap, self, more)
                    [] cls = "Or"  -> Filter_Or(heap, self, more)
                    [] cls = "Not" -> Filter_Not(heap, self)
             ELSE CASE cls = "And" -> ad_Filter_And(heap, self, more)
                    [] cls = "Or"  -> ad_Filter_Or(heap, self, more)
                    [] cls = "Not" -> ad_Filter_Not(heap, self)
    IN  /\ cls = "Not" => more = <<>>
        /\ self \in 1 .. Len(heap)
        /\ \A k \in 1 .. Len(more) : more[k] \in 1 .. Len(heap)
        /\ heap' = r.heap
        /\ last' = [NoOp EXCEPT !.op = "compose", !.node = r.ref, !.cls = cls,
                                !.form = "fluent", !.self = self, !.args = more]
        /\ UNCHANGED module

\* heap[i].test(people[c])
Test(i, c) ==
    /\ module = "filters"
    /\ i \in 1 .. Len(heap)
    /\ last' = [NoOp EXCEPT !.op = "test", !.node = i, !.cand = c,
                            !.out = test(heap, i, people[c])]
    /\ UNCHANGED <<module, heap>>

\* heap[i].filter([people[c] for c in cands])
FilterList(i, cands) ==
    /\ module = "filters"
    /\ i \in 1 .. Len(heap)
    /\ LET r == Filter_filter(heap, i, cands)
       IN  last' = [NoOp EXCEPT !.op = "filter", !.node = i, !.cands = cands,
                                !.exc = r.exc, !.list = r.list]
    /\ UNCHANGED <<module, heap>>

\* heap[i].emit()
Emit(i) ==
    /\ module = "ad_filters"
    /\ i \in 1 .. Len(heap)
    /\ last' = [NoOp EXCEPT !.op = "emit", !.node = i, !.text = emit(heap, i)]
    /\ UNCHANGED <<module, heap>>

\* the sequences over S of length at most n
SeqsUpTo(S, n) == UNION {[1 .. k -> S] : k \in 0 .. n}

---------------------------------------------------------------------------
(* SpecCheck: one Check leaf is constructed from a property name, an      *)
(* operator name and a value, and tested on the candidates.               *)

CheckOperators == ComparatorNames \cup {"eq"}

CheckValues ==
    { StrV(Str("la")), StrV(Str("LA")), StrV(Str("freelance")),
      StrV(Str("FREELANCE")), StrV(Str("e")),
      ListV(<<Str("LA"), Str("SYD")>>), IntV(5), None }

InitCheck ==
    /\ module = "filters"
    /\ heap = <<>>
    /\ last = NoOp

NewCheck ==
    /\ heap = <<>>
    /\ \E p \in Properties, o \in CheckOperators, v \in CheckValues :
          Construct(Check___init__(p, o, v))

TestCheck ==
    /\ heap # <<>>
    /\ \E c \in 1 .. Len(people) : Test(1, c)

NextCheck == NewCheck \/ TestCheck

SpecCheck == InitCheck /\ [][NextCheck]_vars

---------------------------------------------------------------------------
(* Spec: a session imports one of the two modules and has built the       *)
(* filters of its test function and some more.  It constructs one more    *)
(* filter over them, a leaf or a composite in either form, and evaluates  *)
(* the filter it built last.                                              *)

CompositeClasses == {"And", "Or", "Not"}

\* filters.py.  1 .. 3 and 8 .. 10: the leaves and the composites of
\* InOffice('LA').Or(InOffice('SYD')).And(Not(isFreelance)) of tests();
\* 4, 5: two Lambda; 6, 7: a Check and a PropertyRegex on fave
EvalPool ==
    << Filter___init__("InOffice", StrV(Str("LA"))),
       Filter___init__("InOffice", StrV(Str("SYD"))),
       Check___init__("groups", "has", StrV(Str("freelance"))),
       Filter___init__("Lambda", FuncV("always")),
       Filter___init__("Lambda", FuncV("groups")),
       Check___init__("fave", "is", StrV(Str("red"))),
       PropertyRegex___init__("fave", StrV(Str("ed"))),
       Not___init__(3),
       FilterComposite___init__("Or", <<1, 2>>),
       FilterComposite___init__("And", <<9, 8>>) >>

\* ad_filters.py.  1 .. 7: the leaves of test_filters(); 8 .. 10: its
\* Compound, IsActive().And(Check, Check).Or(DescendantOf); 11, 12: the
\* other membership filter of each group; 13: Not(IsDisabled())
EmitPool ==
    << ad_IsDisabled___init__,
       ad_IsActive___init__,
       ad_ChildOf___init__(StrV(Str("systems"))),
       ad_Check___init__(StrV(Str("objectClass")), StrV(Str("Person")), StrV(Str("="))),
       ad_Check___init__(StrV(Str("objectCategory")), StrV(Str("Group")), StrV(Str("="))),
       ad_Check___init__(StrV(Str("accountExpires")), StrV(Str("1")), StrV(Str(">="))),
       ad_DescendantOf___init__(StrV(Str("Google Groups"))),
       ad_IsActive___init__,
       ad_Composite___init__("And", <<8, 4, 6>>),
       ad_Composite___init__("Or", <<9, 7>>),
       ad_ChildOf___init__(StrV(Str("Google Groups"))),
       ad_DescendantOf___init__(StrV(Str("systems"))),
       ad_Not___init__(1) >>

Pool == IF module = "filters" THEN EvalPool ELSE EmitPool

\* the leaves a session constructs on top of the pool
Leaves ==
    IF module = "filters"
    THEN { Filter___init__("InOffice", StrV(Str("NY"))),
           Filter___init__("EchoMatch", None),
           Filter___init__("EchoMatch", IntV(1)),
           Filter___init__("Lambda", FuncV("fave")),
           Filter___init__("Lambda", StrV(Str("fave"))),
           Check___init__("office", "is", StrV(Str("la"))),
           Check___init__("fave", "ne", StrV(Str("Blue"))),
           PropertyRegex___init__("groups", StrV(Str("staff"))),
           PropertyRegex___init__("fave", StrV(Str("R"))) }
    ELSE { ad_IsDisabled___init__,
           ad_IsActive___init__,
           ad_Check___init__(StrV(Str("cn")), StrV(Str("jonh*")), StrV(Str("="))),
           ad_ChildOf___init__(StrV(Str("systems"))),
           ad_ChildOf___init__(StrV(Str("G"))),
           ad_DescendantOf___init__(StrV(Str("systems"))),
           ad_DescendantOf___init__(StrV(Str("Google Groups"))),
           ad_DescendantOf___init__(StrV(Str("G"))) }

\* Bob Brite (LA, staff), Chuck Close (SYD, freelance), Gil Gray (LA, no
\* groups, no fave)
EvalCandidates == {2, 3, 7}

\* An evaluation changes nothing but last: evaluating again from the state
\* it leads to reaches no state that evaluating once does not.
Evaluated == last.op \in {"test", "filter", "emit"}

Init ==
    /\ module \in {"filters", "ad_filters"}
    /\ heap = Pool
    /\ last = NoOp

NewLeaf ==
    /\ Len(heap) = Len(Pool)
    /\ \E object \in Leaves : Construct(object)

Ctor ==
    /\ Len(heap) = Len(Pool)
    /\ \E cls \in CompositeClasses :
       \E filters \in SeqsUpTo(1 .. Len(heap), MaxArgs + 1) :
          ComposeCtor(cls, filters)

Fluent ==
    /\ Len(heap) = Len(Pool)
    /\ \E cls \in CompositeClasses, self \in 1 .. Len(heap) :
       \E more \in SeqsUpTo(1 .. Len(heap), MaxArgs) :
          ComposeFluent(cls, self, more)

TestTop ==
    /\ ~Evaluated
    /\ \E c \in EvalCandidates : Test(Len(heap), c)

FilterTop ==
    /\ ~Evaluated
    /\ \E cands \in SeqsUpTo(EvalCandidates, MaxCands) : FilterList(Len(heap), cands)

EmitTop ==
    /\ ~Evaluated
    /\ Emit(Len(heap))

Next == NewLeaf \/ Ctor \/ Fluent \/ TestTop \/ FilterTop \/ EmitTop

Spec == Init /\ [][Next]_vars

---------------------------------------------------------------------------
(* SpecEval: the sessions of Spec that import filters.py *)

InitEval == Init /\ module = "filters"

NextEval == NewLeaf \/ Ctor \/ Fluent \/ TestTop \/ FilterTop

SpecEval == InitEval /\ [][NextEval]_vars

---------------------------------------------------------------------------
(* SpecEmit: the sessions of Spec that import ad_filters.py *)

InitEmit == Init /\ module = "ad_filters"

NextEmit == NewLeaf \/ Ctor \/ Fluent \/ EmitTop

SpecEmit == InitEmit /\ [][NextEmit]_vars

---------------------------------------------------------------------------
(* Properties *)

Range(seq) == {seq[k] : k \in 1 .. Len(seq)}

Least(S) == CHOOSE k \in S : \A m \in S : k <= m

\* the object the last operation was called on, or returned
Node == heap[last.node]

\* the components of a composite, in order
Components(object) ==
    IF module = "filters" /\ object.kind = "Not" THEN <<object.subject>>
    ELSE object.filters

RECURSIVE ComponentTraces(_, _, _)
\* the traces of testing the first n of the filters fs on c, one after the
\* other
ComponentTraces(fs, c, n) ==
    IF n = 0 THEN <<>>
    ELSE ComponentTraces(fs, c, n - 1) \o test(heap, fs[n], c).trace

\* C1: And.test on a conjunction of n >= 1 components is true iff every
\* component's test is truthy; the components are tested in order, and no
\* component after the first one that fails is tested (a spy placed after
\* a failing component never runs).  A component that raises ends the
\* test with its exception.
C1_AndShortCircuit ==
    (last.op = "test" /\ Node.kind = "And" /\ Len(Node.filters) >= 1) =>
        LET fs    == Node.filters
            c     == people[last.cand]
            r(k)  == test(heap, fs[k], c)
            Stops == {k \in 1 .. Len(fs) : ~Passes(r(k))}
            n     == IF Stops = {} THEN Len(fs) ELSE Least(Stops)
        IN  /\ (~Raised(last.out) /\ last.out.val = True)
                  <=> \A k \in 1 .. Len(fs) : Passes(r(k))
            /\ (Stops # {} /\ ~Raised(r(n))) =>
                  (~Raised(last.out) /\ last.out.val = False)
            /\ (Stops # {} /\ Raised(r(n))) => last.out.exc = r(n).exc
            /\ last.out.trace = <<last.node>> \o ComponentTraces(fs, c, n)
            /\ \A k \in n + 1 .. Len(fs) :
                  (\A j \in 1 .. n : fs[k] \notin Range(r(j).trace))
                      => fs[k] \notin Range(last.out.trace)

\* a conjunction whose first component fails was tested, and the Lambda
\* placed after it did not run
C1_Witness ==
    /\ last.op = "test" /\ Node.kind = "And" /\ Len(Node.filters) >= 2
    /\ ~Passes(test(heap, Node.filters[1], people[last.cand]))
    /\ heap[Node.filters[2]].kind = "Lambda"
    /\ Node.filters[2] \notin Range(last.out.trace)
    /\ last.out = Return(False, <<last.node, Node.filters[1]>>)

\* C2: Or.test on a disjunction of n >= 1 components returns true as soon
\* as the first component in order passes and false if none passes; no
\* component after the first one that passes is tested (a spy placed after
\* a passing component never runs).  A component that raises ends the test
\* with its exception.
C2_OrShortCircuit ==
    (last.op = "test" /\ Node.kind = "Or" /\ Len(Node.filters) >= 1) =>
        LET fs    == Node.filters
            c     == people[last.cand]
            r(k)  == test(heap, fs[k], c)
            Stops == {k \in 1 .. Len(fs) : Raised(r(k)) \/ Truthy(r(k).val)}
            n     == IF Stops = {} THEN Len(fs) ELSE Least(Stops)
        IN  /\ (Stops # {} /\ Passes(r(n))) =>
                  (~Raised(last.out) /\ last.out.val = True)
            /\ Stops = {} => (~Raised(last.out) /\ last.out.val = False)
            /\ (Stops # {} /\ Raised(r(n))) => last.out.exc = r(n).exc
            /\ last.out.trace = <<last.node>> \o ComponentTraces(fs, c, n)
            /\ \A k \in n + 1 .. Len(fs) :
                  (\A j \in 1 .. n : fs[k] \notin Range(r(j).trace))
                      => fs[k] \notin Range(last.out.trace)

\* a disjunction whose first component passes was tested, and the Lambda
\* placed after it did not run
C2_Witness ==
    /\ last.op = "test" /\ Node.kind = "Or" /\ Len(Node.filters) >= 2
    /\ Passes(test(heap, Node.filters[1], people[last.cand]))
    /\ heap[Node.filters[2]].kind = "Lambda"
    /\ Node.filters[2] \notin Range(last.out.trace)
    /\ last.out = Return(True, <<last.node, Node.filters[1]>>)

\* C3: f.filter(cs) returns, in the order of cs, exactly the elements of
\* cs whose test is truthy: a subsequence of cs, nothing reordered,
\* inserted or dropped as a duplicate, chained composites included.  A
\* test that raises ends the call with its exception.
C3_FilterIsSubsequence ==
    (last.op = "filter") =>
        LET cs     == last.cands
            r(k)   == test(heap, last.node, people[cs[k]])
            Fails  == {k \in 1 .. Len(cs) : Raised(r(k))}
            Kept   == {k \in 1 .. Len(cs) : Passes(r(k))}
            pos(j) == CHOOSE k \in Kept : Cardinality({m \in Kept : m <= k}) = j
        IN  IF Fails # {} THEN last.exc = r(Least(Fails)).exc
            ELSE /\ last.exc = ""
                 /\ Len(last.list) = Cardinality(Kept)
                 /\ Len(last.list) <= Len(cs)
                 /\ \A j \in 1 .. Len(last.list) : last.list[j] = cs[pos(j)]

\* InOffice('LA').Or(InOffice('SYD')).And(Not(isFreelance)) filtered a
\* list of Bob Brite twice and Chuck Close once, and kept Bob Brite twice
C3_Witness ==
    /\ last.op = "filter"
    /\ Node.kind = "And" /\ Len(Node.filters) = 2
    /\ heap[Node.filters[1]].kind = "Or" /\ heap[Node.filters[2]].kind = "Not"
    /\ \E k \in 1 .. Len(last.cands) : last.cands[k] = 3
    /\ Len(last.cands) >= 2
    /\ last.exc = ""
    /\ Len(last.list) = Len(last.cands) - 1
    /\ \A k \in 1 .. Len(last.list) : last.list[k] = 2

\* C9: when the candidate lacks the named property, Check.test and
\* PropertyRegex.test raise the lookup error; the fallback of Check.test
\* does not mask it, and neither does an And, Or or Not that tests such a
\* leaf.
C9_MissingPropertyPropagates ==
    (last.op = "test") =>
        \A j \in Range(last.out.trace) :
            ( /\ heap[j].kind \in {"Check", "PropertyRegex"}
              /\ Raised(getattr(people[last.cand], heap[j].property))
              /\ heap[j].kind = "PropertyRegex" => heap[j].pattern.t = "str" )
            => last.out.exc = "AttributeError"

\* a composite tested a Check on a property the candidate lacks, and the
\* test ended with the lookup error
C9_Witness ==
    /\ last.op = "test" /\ Node.kind \in CompositeClasses
    /\ last.out.exc = "AttributeError"
    /\ \E j \in Range(last.out.trace) :
          /\ heap[j].kind = "Check"
          /\ Raised(getattr(people[last.cand], heap[j].property))

\* C4: a Check constructed with an operator name outside the comparator
\* table is rejected at construction: no Check object holds anything but
\* a comparator of the table, and no test runs without one.
C4_UnknownOperatorRejected ==
    \A i \in 1 .. Len(heap) :
        heap[i].kind = "Check" => heap[i].comparator \in ComparatorNames

\* C5: Check.test on a candidate that has the property (1) applies the
\* comparator to the lower-cased property value and test value and
\* returns the result if that does not fail, (2) only if it fails applies
\* the comparator to the raw values and returns that result, (3) only if
\* that fails too returns False; no failure of the comparison reaches the
\* caller, and Check('office', 'is', 'la') passes an office of 'LA'.
C5_CheckFallbackPolicy ==
    ( /\ last.op = "test" /\ Node.kind = "Check"
      /\ ~Raised(getattr(people[last.cand], Node.property)) ) =>
        LET att     == people[last.cand][Node.property]
            value   == Node.value
            lowered == IF att.t = "str" /\ value.t = "str"
                       THEN CallComparator(Node.comparator,
                                           StrV(lower(att.s)), StrV(lower(value.s)))
                       ELSE Raise("AttributeError", <<>>)
            raw     == CallComparator(Node.comparator, att, value)
        IN  /\ ~Raised(last.out)
            /\ ~Raised(lowered) => last.out.val = lowered.val
            /\ (Raised(lowered) /\ ~Raised(raw)) => last.out.val = raw.val
            /\ (Raised(lowered) /\ Raised(raw)) => last.out.val = False
            /\ ( /\ Node.property = "office" /\ Node.comparator = "is"
                 /\ value = StrV(Str("la")) /\ att = StrV(Str("LA")) )
               => last.out.val = True

\* Check('office', 'is', 'la') was tested on a candidate whose office is
\* 'LA', and passed
C5_Witness ==
    /\ last.op = "test" /\ Node.kind = "Check"
    /\ Node.property = "office" /\ Node.comparator = "is"
    /\ Node.value = StrV(Str("la"))
    /\ people[last.cand]["office"] = StrV(Str("LA"))
    /\ last.out = Return(True, <<last.node>>)

RECURSIVE EmitLengths(_, _)
\* the length of the emissions of the first n of the filters fs together
EmitLengths(fs, n) ==
    IF n = 0 THEN 0 ELSE EmitLengths(fs, n - 1) + Len(emit(heap, fs[n]))

\* the operator of a composite class in the LDAP filter grammar
OperatorOf(kind) ==
    CASE kind = "And" -> "&" [] kind = "Or" -> "|" [] kind = "Not" -> "!"

\* C6: the emission of an And, Or or Not is "(", the operator ("&", "|",
\* "!"), the emissions of its components in their order, and ")": no
\* component is moved, dropped or simplified away, so that
\* Not(Not(X)).emit() is "(!(!" + X.emit() + "))" and is not X.emit().
C6_CompositeEmission ==
    (last.op = "emit" /\ Node.kind \in CompositeClasses) =>
        LET fs   == Node.filters
            e(k) == emit(heap, fs[k])
            text == last.text
        IN  /\ Len(text) = 3 + EmitLengths(fs, Len(fs))
            /\ text[1] = "("
            /\ text[2] = OperatorOf(Node.kind)
            /\ text[Len(text)] = ")"
            /\ \A k \in 1 .. Len(fs) :
                  SubSeq(text, 3 + EmitLengths(fs, k - 1),
                               2 + EmitLengths(fs, k)) = e(k)
            /\ (Node.kind = "Not" /\ heap[fs[1]].kind = "Not") =>
                  LET x == emit(heap, heap[fs[1]].filters[1])
                  IN  /\ text = Str("(!(!") \o x \o Str("))")
                      /\ text # x

\* Not(Not(IsDisabled())) was emitted
C6_Witness ==
    /\ last.op = "emit" /\ Node.kind = "Not"
    /\ heap[Node.filters[1]].kind = "Not"
    /\ heap[heap[Node.filters[1]].filters[1]].kind = "IsDisabled"
    /\ last.text = Str("(!(!") \o emit(heap, heap[Node.filters[1]].filters[1]) \o Str("))")
    /\ last.text # emit(heap, heap[Node.filters[1]].filters[1])

\* the emission of DescendantOf(G), and the emission of every ChildOf(G)
\* of the same G, with the parts they are made of
MembershipPairs ==
    { [d |-> last.text, c |-> emit(heap, j), g |-> heap[j].parent.s] :
        j \in { i \in 1 .. Len(heap) : /\ last.op = "emit"
                                       /\ Node.kind = "DescendantOf"
                                       /\ heap[i].kind = "ChildOf"
                                       /\ heap[i].parent = Node.parent } }

MemberOf == Str("(memberOf")
InChainRule == Str(":") \o C__CHAIN.s \o Str(":")

\* C7 as claimed: DescendantOf(G).emit() and ChildOf(G).emit() differ only
\* in the match rule put after memberOf: what follows is the same in both.
C7_SameRemainder ==
    \A m \in MembershipPairs :
        \E rest \in {SubSeq(m.c, Len(MemberOf) + 1, Len(m.c))} :
            /\ m.c = MemberOf \o rest
            /\ m.d = MemberOf \o InChainRule \o rest

\* C7 as amended: the two emissions differ in the match rule put after
\* memberOf and in the letter case of the attribute names of the naming
\* context, and in nothing else: what follows is "=CN=G," in both, and the
\* same in both once lower-cased.
C7_SameRemainderUpToCase ==
    \A m \in MembershipPairs :
        LET restC == SubSeq(m.c, Len(MemberOf) + 1, Len(m.c))
            restD == SubSeq(m.d, Len(MemberOf) + Len(InChainRule) + 1, Len(m.d))
            head  == Str("=CN=") \o m.g \o Str(",")
        IN  /\ m.c = MemberOf \o restC
            /\ m.d = MemberOf \o InChainRule \o restD
            /\ SubSeq(restC, 1, Len(head)) = head
            /\ SubSeq(restD, 1, Len(head)) = head
            /\ lower(restC) = lower(restD)

\* DescendantOf('systems') was emitted in a session that holds
\* ChildOf('systems')
C7_Witness ==
    /\ MembershipPairs # {}
    /\ Node.parent = StrV(Str("systems"))

\* the constructor of the class cls of the imported module, on heap h
ConstructorOf(cls, h, filters) ==
    IF module = "filters"
    THEN CASE cls = "And" -> filters_And(h, filters)
           [] cls = "Or"  -> filters_Or(h, filters)
           [] cls = "Not" -> filters_Not(h, filters[1])
    ELSE CASE cls = "And" -> ad_And(h, filters)
           [] cls = "Or"  -> ad_Or(h, filters)
           [] cls = "Not" -> ad_Not(h, filters[1])

\* C8: the fluent form and the constructor form build the same tree:
\* x.And(a1..an) is an And of the components [x, a1..an] like
\* And(x, a1..an), and so for Or and Not; test() and emit() give the same
\* for both.
C8_FluentIsConstructor ==
    (last.op = "compose" /\ last.form = "fluent") =>
        LET components == <<last.self>> \o last.args
            before     == SubSeq(heap, 1, Len(heap) - 1)
            built      == ConstructorOf(last.cls, before, components)
        IN  /\ Node.kind = last.cls
            /\ Components(Node) = components
            /\ heap = built.heap
            /\ last.node = built.ref
            /\ module = "filters" =>
                  \A c \in EvalCandidates :
                      test(heap, last.node, people[c])
                          = test(built.heap, built.ref, people[c])
            /\ module = "ad_filters" =>
                  emit(heap, last.node) = emit(built.heap, built.ref)

\* x.Or(a) was called with a receiver and an argument that differ
C8_Witness ==
    /\ last.op = "compose" /\ last.form = "fluent" /\ last.cls = "Or"
    /\ Len(last.args) >= 1
    /\ last.args[1] # last.self
    /\ Components(Node) = <<last.self>> \o last.args

\* C10: composition and evaluation never change an object that exists:
\* every object keeps the parameters and the components it was constructed
\* with.
C10_ObjectsNeverChange ==
    [][\A i \in 1 .. Len(heap) : Len(heap') >= i /\ heap'[i] = heap[i]]_vars

\* a composite built over the And of the pool, which shares its components
\* with it, was evaluated, and the pool is as it was built
C10_Witness ==
    /\ Evaluated
    /\ Len(heap) = Len(Pool) + 1
    /\ Node.kind \in {"And", "Or"}
    /\ \E k \in 1 .. Len(Node.filters) :
          /\ heap[Node.filters[k]].kind = "And"
          /\ \E j \in 1 .. Len(Node.filters) :
                Node.filters[j] \in Range(heap[Node.filters[k]].filters)
    /\ SubSeq(heap, 1, Len(Pool)) = Pool

=============================================================================
